---- MODULE Spec2Model ----
(***************************************************************************)
(* A model of the OpenRPC specification generator (generate-specs.js) and  *)
(* of the file watcher that drives it (watch.js).                          *)
(*                                                                         *)
(* Strings that the code takes apart (paths, file names, method names) are *)
(* sequences of one-character strings, so that basename, extname,          *)
(* startsWith, endsWith, includes and localeCompare are computed.          *)
(* Documents are trees of records: scalars, location values, ordered       *)
(* objects and arrays.                                                     *)
(***************************************************************************)
EXTENDS Integers, Sequences, FiniteSets, TLC

(***************************************************************************)
(* Strings                                                                 *)
(***************************************************************************)

RECURSIVE Cat(_)
\* Concatenation of a sequence of character sequences.
Cat(ss) == IF ss = <<>> THEN <<>> ELSE Head(ss) \o Cat(Tail(ss))

\* String.prototype.startsWith
StartsWith(s, p) == Len(p) <= Len(s) /\ SubSeq(s, 1, Len(p)) = p

\* String.prototype.endsWith
EndsWith(s, p) == Len(p) <= Len(s) /\ SubSeq(s, Len(s) - Len(p) + 1, Len(s)) = p

\* String.prototype.includes
Includes(s, p) ==
    \E i \in 1..(Len(s) - Len(p) + 1) : SubSeq(s, i, i + Len(p) - 1) = p

\* Index of the last occurrence of character c in s, 0 when there is none.
LastIndexOf(s, c) ==
    LET hits == {i \in 1..Len(s) : s[i] = c}
    IN  IF hits = {} THEN 0 ELSE CHOOSE i \in hits : \A j \in hits : j <= i

Slash == <<"/">>
Dot == <<".">>
Underscore == <<"_">>

\* path.basename(p)
Basename(p) == SubSeq(p, LastIndexOf(p, "/") + 1, Len(p))

\* path.extname(p): from the last dot of the base name; empty when there is no
\* dot or when the only dot is the first character of the base name.
Extname(p) ==
    LET b == Basename(p)
        i == LastIndexOf(b, ".")
    IN  IF i <= 1 THEN <<>> ELSE SubSeq(b, i, Len(b))

\* path.basename(p, ext)
BasenameNoExt(p) ==
    LET b == Basename(p)
        e == Extname(p)
    IN  SubSeq(b, 1, Len(b) - Len(e))

\* path.isAbsolute(p)
IsAbsolute(p) == Len(p) > 0 /\ p[1] = "/"

\* path.join(dir, name) for a name without separators
Join(dir, name) == dir \o Slash \o name

W_alchemy == <<"a","l","c","h","e","m","y">>
W_specs == <<"s","p","e","c","s">>
W_generated == <<"g","e","n","e","r","a","t","e","d">>
W_components == <<"_","c","o","m","p","o","n","e","n","t","s">>
ExtYaml == <<".","y","a","m","l">>
ExtYml == <<".","y","m","l">>
ExtJson == <<".","j","s","o","n">>
ExtMdx == <<".","m","d","x">>

\* The directory that holds scripts/ and alchemy/ (__dirname/..); the
\* watcher's working directory.
RootDir == <<"/","r">>

SPECS_DIR == Cat(<<RootDir, Slash, W_alchemy, Slash, W_specs>>)
OUTPUT_DIR == Cat(<<RootDir, Slash, W_alchemy, Slash, W_generated>>)

(***************************************************************************)
(* Document trees                                                          *)
(***************************************************************************)

\* A scalar.
Val(x) == [kind |-> "val", v |-> x]

\* A string scalar whose characters the code inspects (a method name).
Str(cs) == [kind |-> "str", s |-> cs]

\* The string value of a "$ref" key: <file>#<pointer>; an empty file means
\* the document that holds the reference.
Loc(f, p) == [kind |-> "loc", file |-> f, ptr |-> p]

\* A mapping, as the ordered list of its entries.
Obj(es) == [kind |-> "obj", ent |-> es]

\* A sequence.
Arr(xs) == [kind |-> "arr", items |-> xs]

E(key, value) == [k |-> key, v |-> value]

\* JavaScript's undefined: the value of a key an object does not have.
Undefined == [kind |-> "undefined"]

\* A path with no file behind it.
Absent == [kind |-> "absent"]

IsObj(n) == n.kind = "obj"
IsArr(n) == n.kind = "arr"

Keys(n) == {n.ent[i].k : i \in 1..Len(n.ent)}

HasKey(n, key) == IsObj(n) /\ key \in Keys(n)

\* obj[key]
Get(n, key) ==
    IF HasKey(n, key)
    THEN n.ent[CHOOSE i \in 1..Len(n.ent) : n.ent[i].k = key].v
    ELSE Undefined

\* JavaScript truthiness of a value.
Truthy(n) ==
    CASE n.kind = "undefined" -> FALSE
      [] n.kind = "val" -> n.v \notin {"null", "false", ""}
      [] n.kind = "str" -> n.s # <<>>
      [] OTHER -> TRUE

\* The entries of an object without the entry of one key (delete obj[key]).
Without(n, key) ==
    Obj(SelectSeq(n.ent, LAMBDA e : e.k # key))

\* The key under which an array keeps its i-th item (JSON pointer token).
IdxKey(i) == CASE i = 1 -> "0" [] i = 2 -> "1" [] i = 3 -> "2" [] OTHER -> "n"

RECURSIVE Lookup(_, _)
\* The value a JSON pointer names within a tree; Undefined when a token
\* names nothing.
Lookup(n, ptr) ==
    IF ptr = <<>> THEN n
    ELSE IF HasKey(n, Head(ptr)) THEN Lookup(Get(n, Head(ptr)), Tail(ptr))
    ELSE Undefined

\* Outcomes of a step that may throw.
Ok(t) == [ok |-> TRUE, tree |-> t, err |-> "none"]
Fail(e) == [ok |-> FALSE, tree |-> Undefined, err |-> e]

\* The values directly below a node.
Children(n) ==
    CASE IsObj(n) -> [i \in 1..Len(n.ent) |-> n.ent[i].v]
      [] IsArr(n) -> n.items
      [] OTHER -> <<>>

\* A reference node: an object with a "$ref" key that holds a location.
IsRef(n) == HasKey(n, "$ref") /\ Get(n, "$ref").kind = "loc"

\* A composition node: an object with an "allOf" key.
IsAllOf(n) == HasKey(n, "allOf")

RECURSIVE HasRefNode(_)
\* Whether a reference node occurs anywhere in a tree.
HasRefNode(n) ==
    \/ IsRef(n)
    \/ \E i \in 1..Len(Children(n)) : HasRefNode(Children(n)[i])

RECURSIVE HasAllOfNode(_)
\* Whether a node with an allOf key occurs anywhere in a tree.
HasAllOfNode(n) ==
    \/ IsAllOf(n)
    \/ \E i \in 1..Len(Children(n)) : HasAllOfNode(Children(n)[i])

\* Results of the steps applied to the members of a sequence.
AllOk(rs) == \A i \in 1..Len(rs) : rs[i].ok

FirstErr(rs) ==
    rs[CHOOSE i \in 1..Len(rs) :
          ~rs[i].ok /\ \A j \in 1..(i - 1) : rs[j].ok].err

Trees(rs) == [i \in 1..Len(rs) |-> rs[i].tree]

(***************************************************************************)
(* Reference resolution: $RefParser.dereference(filePath, {dereference:    *)
(* {circular: false}}).  A file system is a function from paths to trees   *)
(* (Absent where there is no file).  The crawl is depth first; parents is  *)
(* the set of locations of the objects on the path from the root, through  *)
(* the references followed; a reference to one of them is circular and,    *)
(* with circular: false, an error.  References have no sibling keys, and   *)
(* a reference does not name a node that is itself the same reference.     *)
(***************************************************************************)

\* path.dirname(p)
Dirname(p) == SubSeq(p, 1, LastIndexOf(p, "/") - 1)

ReadFile(files, f) == IF f \in DOMAIN files THEN files[f] ELSE Absent

\* The file a location names, seen from the file that holds the reference.
TargetFile(file, loc) ==
    IF loc.file = <<>> THEN file ELSE Join(Dirname(file), loc.file)

RECURSIVE Crawl(_, _, _, _, _, _)
\* circular is the option dereference.circular: "false" makes a circular
\* reference an error, "ignore" leaves it in the tree.
Crawl(circular, files, file, n, here, parents) ==
    IF IsRef(n) THEN
        LET loc == Get(n, "$ref")
            tf == TargetFile(file, loc)
            target == Lookup(ReadFile(files, tf), loc.ptr)
        IN  IF ReadFile(files, tf) = Absent THEN Fail("resolver")
            ELSE IF target = Undefined THEN Fail("missing")
            ELSE IF <<tf, loc.ptr>> \in parents
            THEN (IF circular = "ignore" THEN Ok(n) ELSE Fail("circular"))
            ELSE Crawl(circular, files, tf, target, loc.ptr, parents)
    ELSE IF IsObj(n) THEN
        LET rs == [i \in 1..Len(n.ent) |->
                     Crawl(circular, files, file, n.ent[i].v,
                           Append(here, n.ent[i].k), parents \cup {<<file, here>>})]
        IN  IF AllOk(rs)
            THEN Ok(Obj([i \in 1..Len(n.ent) |-> E(n.ent[i].k, rs[i].tree)]))
            ELSE Fail(FirstErr(rs))
    ELSE IF IsArr(n) THEN
        LET rs == [i \in 1..Len(n.items) |->
                     Crawl(circular, files, file, n.items[i],
                           Append(here, IdxKey(i)), parents \cup {<<file, here>>})]
        IN  IF AllOk(rs) THEN Ok(Arr(Trees(rs))) ELSE Fail(FirstErr(rs))
    ELSE Ok(n)

\* Variant: the call without the option, circular references left in place.
DereferenceIgnoreCircular(files, filePath) ==
    IF ReadFile(files, filePath) = Absent THEN Fail("resolver")
    ELSE Crawl("ignore", files, filePath, ReadFile(files, filePath), <<>>, {})

\* $RefParser.dereference(filePath, {dereference: {circular: false}})
Dereference(files, filePath) ==
    IF ReadFile(files, filePath) = Absent THEN Fail("resolver")
    ELSE Crawl("false", files, filePath, ReadFile(files, filePath), <<>>, {})

RECURSIVE RefLocs(_, _)
\* The locations named by the reference nodes of a tree held by a file.
RefLocs(n, file) ==
    IF IsRef(n) THEN {<<TargetFile(file, Get(n, "$ref")), Get(n, "$ref").ptr>>}
    ELSE UNION {RefLocs(Children(n)[i], file) : i \in 1..Len(Children(n))}

NodeAt(files, loc) == Lookup(ReadFile(files, loc[1]), loc[2])

\* The location names a node of a file that is there.
Loadable(files, loc) ==
    ReadFile(files, loc[1]) # Absent /\ NodeAt(files, loc) # Undefined

\* The locations the node at a location refers to.
RefSucc(files, loc) ==
    IF Loadable(files, loc) THEN RefLocs(NodeAt(files, loc), loc[1]) ELSE {}

RECURSIVE RefClosure(_, _)
\* The locations reached from a set of locations by following references.
RefClosure(files, S) ==
    LET T == S \cup UNION {RefSucc(files, l) : l \in S}
    IN  IF T = S THEN S ELSE RefClosure(files, T)

\* The locations a document refers to, directly or not.
Reached(files, f) == RefClosure(files, RefSucc(files, <<f, <<>>>>))

\* The files the parser of one dereference call reads besides the document
\* itself: each file a reference names, directly or through the files
\* read, once, as the parser keeps what it has read ($refs) for the
\* length of the call.
ExternalFiles(files, filePath) ==
    {l[1] : l \in {r \in Reached(files, filePath) : ReadFile(files, r[1]) # Absent}}
        \ {filePath}

(***************************************************************************)
(* Composition: mergeAllOf(obj) of json-schema-merge-allof, for schemas    *)
(* made of the keys type, properties and description.  The members of the  *)
(* allOf list, flattened, are merged with the node's own keys: type must   *)
(* agree (the intersection of distinct types is empty and the library      *)
(* throws), properties are merged name by name, any other key keeps its    *)
(* value when all members agree and makes the library throw otherwise,     *)
(* except description, which keeps the first.                              *)
(***************************************************************************)

RECURSIVE Flatten(_)
\* The allOf-free schemas a schema stands for: itself without its allOf key,
\* then those of the members of its allOf list.
Flatten(n) ==
    IF ~IsObj(n) THEN <<n>>
    ELSE LET own == Without(n, "allOf")
             a == Get(n, "allOf")
         IN  (IF own.ent = <<>> /\ HasKey(n, "allOf") THEN <<>> ELSE <<own>>)
             \o (IF IsArr(a)
                 THEN Cat([i \in 1..Len(a.items) |-> Flatten(a.items[i])])
                 ELSE <<>>)

RECURSIVE OrderedKeys(_)
\* The keys of a list of objects, each once, in order of first occurrence.
OrderedKeys(es) ==
    IF es = <<>> THEN <<>>
    ELSE LET before == OrderedKeys(SubSeq(es, 1, Len(es) - 1))
             key == es[Len(es)].k
         IN  IF \E i \in 1..Len(before) : before[i] = key
             THEN before ELSE Append(before, key)

AllEntries(ss) == Cat([i \in 1..Len(ss) |-> IF IsObj(ss[i]) THEN ss[i].ent ELSE <<>>])

\* The values the schemas of a list give to one key, in list order.
ValuesOf(ss, key) ==
    LET having == SelectSeq(ss, LAMBDA x : HasKey(x, key))
    IN  [i \in 1..Len(having) |-> Get(having[i], key)]

RECURSIVE MergeList(_)
MergeList(ss) ==
    IF \E i \in 1..Len(ss) : ~IsObj(ss[i]) THEN Fail("conflict")
    ELSE
    LET keys == OrderedKeys(AllEntries(ss))
        MergeKey(key) ==
            LET vals == ValuesOf(ss, key)
                same == \A i \in 1..Len(vals) : vals[i] = vals[1]
            IN  IF key = "properties" THEN
                    IF \E i \in 1..Len(vals) : ~IsObj(vals[i]) THEN Fail("conflict")
                    ELSE
                    LET names == OrderedKeys(AllEntries(vals))
                        rs == [j \in 1..Len(names) |->
                                 MergeList(Cat([i \in 1..Len(ValuesOf(vals, names[j])) |->
                                     Flatten(ValuesOf(vals, names[j])[i])]))]
                    IN  IF AllOk(rs)
                        THEN Ok(Obj([j \in 1..Len(names) |-> E(names[j], rs[j].tree)]))
                        ELSE Fail(FirstErr(rs))
                ELSE IF same \/ key = "description" THEN Ok(vals[1])
                ELSE Fail("conflict")
        rk == [j \in 1..Len(keys) |-> MergeKey(keys[j])]
    IN  IF AllOk(rk)
        THEN Ok(Obj([j \in 1..Len(keys) |-> E(keys[j], rk[j].tree)]))
        ELSE Fail(FirstErr(rk))

\* mergeAllOf(obj)
MergeAllOf(n) == MergeList(Flatten(n))

(***************************************************************************)
(* generate-specs.js                                                       *)
(***************************************************************************)

RECURSIVE mergeAllOfSchemas(_)
\* Scalars are returned as they are, arrays are mapped, an object with a
\* truthy allOf is merged and the result processed again (the object is
\* returned untouched when the merge throws), any other object has each of
\* its values processed.
mergeAllOfSchemas(obj) ==
    IF ~(IsObj(obj) \/ IsArr(obj)) THEN obj
    ELSE IF IsArr(obj)
    THEN Arr([i \in 1..Len(obj.items) |-> mergeAllOfSchemas(obj.items[i])])
    ELSE IF Truthy(Get(obj, "allOf")) THEN
        LET m == MergeAllOf(obj)
        IN  IF m.ok THEN mergeAllOfSchemas(m.tree) ELSE obj
    ELSE Obj([i \in 1..Len(obj.ent) |->
                E(obj.ent[i].k, mergeAllOfSchemas(obj.ent[i].v))])

\* Position of a letter in the alphabet, whatever its case.
LetterRank(c) == CASE c \in {"a", "A"} -> 1 [] c \in {"b", "B"} -> 2 [] OTHER -> 3

IsUpper(c) == c \in {"A", "B"}

\* UTF-16 code unit of a character.
CodeUnit(c) ==
    CASE c = "A" -> 65 [] c = "B" -> 66 [] c = "a" -> 97 [] c = "b" -> 98
      [] OTHER -> 122

\* First position at which two strings differ under a key, 0 when none does
\* within the shorter one.
FirstDiff(x, y, Key(_)) ==
    LET m == IF Len(x) < Len(y) THEN Len(x) ELSE Len(y)
        d == {i \in 1..m : Key(x[i]) # Key(y[i])}
    IN  IF d = {} THEN 0 ELSE CHOOSE i \in d : \A j \in d : i <= j

\* Comparison by code units: the ordinary lexicographic order of strings
\* (the < operator of the language).
CodeUnitCompare(x, y) ==
    LET i == FirstDiff(x, y, CodeUnit)
    IN  IF i > 0 THEN (IF CodeUnit(x[i]) < CodeUnit(y[i]) THEN -1 ELSE 1)
        ELSE IF Len(x) < Len(y) THEN -1
        ELSE IF Len(x) > Len(y) THEN 1 ELSE 0

\* x.localeCompare(y): the letters decide first, whatever their case; between
\* strings with the same letters the first difference of case decides, lower
\* case first.
LocaleCompare(x, y) ==
    LET i == FirstDiff(x, y, LetterRank)
        CaseKey(c) == IF IsUpper(c) THEN 1 ELSE 0
        j == FirstDiff(x, y, CaseKey)
    IN  IF i > 0 THEN (IF LetterRank(x[i]) < LetterRank(y[i]) THEN -1 ELSE 1)
        ELSE IF Len(x) < Len(y) THEN -1
        ELSE IF Len(x) > Len(y) THEN 1
        ELSE IF j > 0 THEN (IF IsUpper(x[j]) THEN 1 ELSE -1)
        ELSE 0

\* a.name of an entry of the methods array (every entry of the documents
\* considered is an object with a string name).
NameOf(m) == Get(m, "name").s

RECURSIVE SortUnstable(_)
\* Variant of the sort that puts an entry before the entries of equal name.
SortUnstable(xs) ==
    IF Len(xs) <= 1 THEN xs
    ELSE LET sorted == SortUnstable(SubSeq(xs, 1, Len(xs) - 1))
             x == xs[Len(xs)]
             k == Cardinality({i \in 1..Len(sorted) :
                     LocaleCompare(NameOf(sorted[i]), NameOf(x)) < 0})
         IN  SubSeq(sorted, 1, k) \o <<x>> \o SubSeq(sorted, k + 1, Len(sorted))

RECURSIVE SortMethods(_)
\* methods.sort((a, b) => a.name.localeCompare(b.name)): Array.prototype.sort
\* is stable; as an insertion sort that puts each entry after the entries
\* that do not compare greater.
SortMethods(xs) ==
    IF Len(xs) <= 1 THEN xs
    ELSE LET sorted == SortMethods(SubSeq(xs, 1, Len(xs) - 1))
             x == xs[Len(xs)]
             k == Cardinality({i \in 1..Len(sorted) :
                     LocaleCompare(NameOf(sorted[i]), NameOf(x)) <= 0})
         IN  SubSeq(sorted, 1, k) \o <<x>> \o SubSeq(sorted, k + 1, Len(sorted))

\* obj[key] = value for a key the object has.
SetKey(n, key, value) ==
    Obj([i \in 1..Len(n.ent) |->
           IF n.ent[i].k = key THEN E(key, value) ELSE n.ent[i]])

\* merged.methods?.length || 0
MethodCount(spec) ==
    IF IsArr(Get(spec, "methods")) THEN Len(Get(spec, "methods").items) ELSE 0

\* delete merged.components (lines 30-32)
DropComponents(merged) ==
    IF Truthy(Get(merged, "components")) THEN Without(merged, "components")
    ELSE merged

\* The methods are sorted in place (lines 35-37).
SortStep(merged) ==
    IF Truthy(Get(merged, "methods")) /\ IsArr(Get(merged, "methods"))
    THEN SetKey(merged, "methods", Arr(SortMethods(Get(merged, "methods").items)))
    ELSE merged

\* The steps of dereferenceSpec after the references are resolved (lines
\* 27-37).
PostProcess(dereferenced) ==
    SortStep(DropComponents(mergeAllOfSchemas(dereferenced)))

\* What dereferenceSpec makes of the outcome of the resolution: the result
\* {spec, fileName}, or the error thrown again.
ResultOf(d, filePath) ==
    IF d.ok
    THEN [ok |-> TRUE, spec |-> PostProcess(d.tree),
          fileName |-> BasenameNoExt(filePath), err |-> "none"]
    ELSE [ok |-> FALSE, spec |-> Undefined,
          fileName |-> BasenameNoExt(filePath), err |-> d.err]

\* dereferenceSpec(filePath)
dereferenceSpec(files, filePath) == ResultOf(Dereference(files, filePath), filePath)

MarkerKey == "x-generated-warning"
MarkerValue == Val("auto-generated, do not edit")

\* {...front, ...spec}: the keys of spec are set in order; a key already
\* there keeps its place and takes the value of spec.
Spread(front, spec) ==
    LET RECURSIVE Put(_, _)
        Put(acc, i) ==
            IF i > Len(spec.ent) THEN acc
            ELSE Put(IF HasKey(acc, spec.ent[i].k)
                     THEN SetKey(acc, spec.ent[i].k, spec.ent[i].v)
                     ELSE Obj(Append(acc.ent, spec.ent[i])),
                     i + 1)
    IN  IF IsObj(spec) THEN Put(front, 1) ELSE front

\* The path writeSpec writes.
OutputPath(fileName) == Join(OUTPUT_DIR, fileName \o ExtJson)

\* The object writeSpec serializes: the warning first, then the keys of spec.
OutputOf(spec) == Spread(Obj(<<E(MarkerKey, MarkerValue)>>), spec)

(***************************************************************************)
(* The files of the model                                                  *)
(***************************************************************************)

fA == Join(SPECS_DIR, <<"a">> \o ExtYaml)
fB == Join(SPECS_DIR, <<"b">> \o ExtYaml)
fAyml == Join(SPECS_DIR, <<"a">> \o ExtYml)
fXc == Join(SPECS_DIR, <<"x">> \o W_components \o ExtYaml)
FragName == <<"_", "s">> \o ExtYaml
fFrag == Join(SPECS_DIR, FragName)
fComp == Join(Join(SPECS_DIR, W_components), <<"c">> \o ExtYaml)
fPage == Join(RootDir, <<"p">> \o ExtMdx)

\* The order in which a directory listing gives the names of the model.
AllFiles == <<fFrag, fA, fAyml, fB, fXc, fComp, fPage>>

FileSet == {AllFiles[i] : i \in 1..Len(AllFiles)}

\* A path as the watcher and the command line give it: relative to the
\* working directory.
Rel(f) == SubSeq(f, Len(RootDir) + 2, Len(f))

TString == Obj(<<E("type", Val("string"))>>)
TInteger == Obj(<<E("type", Val("integer"))>>)
TObject(s) == Obj(<<E("type", Val("object")), E("properties", Obj(<<E("p", s)>>))>>)
RefLocal(name) == Obj(<<E("$ref", Loc(<<>>, <<"components", name>>))>>)
RefFrag(name) == Obj(<<E("$ref", Loc(FragName, <<"components", name>>))>>)
AllOf(ss) == Obj(<<E("allOf", Arr(ss))>>)

Method(name, summary, schema) ==
    Obj(<<E("name", Str(name)), E("summary", Val(summary)), E("schema", schema)>>)

Doc(methods, components) ==
    Obj(<<E("openrpc", Val("1.2.6")), E("methods", Arr(methods)),
          E("components", Obj(components))>>)

DocPlain ==
    Doc(<<Method(<<"b">>, "m1", TString), Method(<<"a">>, "m2", TInteger)>>, <<>>)
DocDup ==
    Doc(<<Method(<<"B">>, "m1", TString), Method(<<"a">>, "m2", TInteger),
          Method(<<"a">>, "m3", TString)>>, <<>>)
DocLocalRef ==
    Doc(<<Method(<<"a">>, "m1", RefLocal("X"))>>, <<E("X", TObject(RefLocal("Y"))), E("Y", TString)>>)
DocFragRef ==
    Doc(<<Method(<<"a">>, "m1", RefFrag("X"))>>, <<>>)
DocMissing ==
    Doc(<<Method(<<"a">>, "m1", RefLocal("Nope"))>>, <<E("X", TString)>>)
DocCycle ==
    Doc(<<Method(<<"a">>, "m1", RefLocal("X"))>>,
        <<E("X", TObject(RefLocal("Y"))), E("Y", TObject(RefLocal("X")))>>)
DocAllOf ==
    Doc(<<Method(<<"a">>, "m1",
            AllOf(<<TObject(AllOf(<<TString, Obj(<<E("description", Val("d"))>>)>>)),
                    RefLocal("X")>>))>>,
        <<E("X", Obj(<<E("type", Val("object"))>>))>>)
DocConflict ==
    Doc(<<Method(<<"a">>, "m1", AllOf(<<TString, TInteger>>))>>, <<>>)
DocMarker ==
    Obj(<<E("openrpc", Val("1.2.6")), E(MarkerKey, Val("mine")),
          E("methods", Arr(<<Method(<<"a">>, "m1", TString)>>))>>)
DocOther ==
    Doc(<<Method(<<"a", "b">>, "m9", TInteger)>>, <<>>)

FragGood ==
    Obj(<<E("components", Obj(<<E("X", TObject(RefLocal("Y"))), E("Y", TInteger)>>))>>)
FragComp ==
    Obj(<<E("components", Obj(<<E("Z", TString)>>))>>)
PageText == Val("mdx")

ContentsA == {DocPlain, DocDup, DocLocalRef, DocFragRef, DocMissing, DocCycle,
              DocAllOf, DocConflict, DocMarker}
ContentsB == {Absent, DocPlain, DocMissing}
ContentsAyml == {Absent}
ContentsXc == {Absent, DocOther}
ContentsFrag == {Absent, FragGood}

OutPaths == {OutputPath(BasenameNoExt(f)) : f \in FileSet}

(***************************************************************************)
(* State                                                                   *)
(***************************************************************************)

\* Invocations of generateSpecs in one behaviour: from the command line or
\* from the watcher's debounced callback.
MaxRuns == 1

Runs == 1..MaxRuns

VARIABLES
    fs,     \* the content directory: path -> tree, Absent where no file is
    out,    \* the generated directory: path -> serialized object or Absent
    inst,   \* per invocation: the caller, its position, and the run's state
    revalidateTimeout
            \* the watcher's pending timer: the path its callback will be
            \* given, or NoTimer

vars == <<fs, out, inst, revalidateTimeout>>

\* let revalidateTimeout = null, and the timer once cleared or fired.
NoTimer == <<>>

\* No argument on the command line (process.argv[2] is undefined).
NoArg == <<>>

NoRun ==
    [st |-> "none", mode |-> "none", specFiles |-> <<>>, task |-> <<>>,
     errs |-> <<>>, wrote |-> <<>>, results |-> <<>>,
     successful |-> 0, totalMethods |-> 0,
     loads |-> [f \in FileSet |-> 0]]

Unused == [caller |-> "none", pc |-> "unused", path |-> NoArg, run |-> NoRun]

\* fs.existsSync(p): a file, or a directory that holds one.
Exists(files, p) ==
    \E f \in DOMAIN files :
        files[f] # Absent /\ (f = p \/ StartsWith(f, p \o Slash))

\* fs.readdirSync(dir): the names of the entries of dir, files and
\* directories, in listing order.
Readdir(files, dir) ==
    LET EntryOf(f) ==
            LET rest == SubSeq(f, Len(dir) + 2, Len(f))
                cut == {i \in 1..Len(rest) : rest[i] = "/"}
            IN  IF cut = {} THEN rest
                ELSE SubSeq(rest, 1, (CHOOSE i \in cut : \A j \in cut : i <= j) - 1)
        under == SelectSeq(AllFiles,
                    LAMBDA f : files[f] # Absent /\ StartsWith(f, dir \o Slash))
        names == [i \in 1..Len(under) |-> EntryOf(under[i])]
    IN  SelectSeq([i \in 1..Len(names) |->
                      IF \E j \in 1..(i - 1) : names[j] = names[i]
                      THEN <<>> ELSE names[i]],
                  LAMBDA x : x # <<>>)

\* The filter of the full build (line 146).
Eligible(file) ==
    (EndsWith(file, ExtYaml) \/ EndsWith(file, ExtYml)) /\ ~StartsWith(file, Underscore)

\* The spec files of a full build.
FullList(files) ==
    LET kept == SelectSeq(Readdir(files, SPECS_DIR), Eligible)
    IN  [i \in 1..Len(kept) |-> Join(SPECS_DIR, kept[i])]

\* Variant of the test for a shared component that looks at the file name
\* only.
IsSharedNameOnly(specificFile) == StartsWith(Basename(specificFile), Underscore)

\* The test for a shared component file (line 122).
IsShared(specificFile) ==
    StartsWith(Basename(specificFile), Underscore)
        \/ Includes(specificFile, W_components)

\* The path an incremental build processes (lines 126-128).
FullPath(specificFile) ==
    IF IsAbsolute(specificFile) THEN specificFile
    ELSE Join(SPECS_DIR, Basename(specificFile))

\* The unit of work of generateSpecs(specificFile) (lines 114-155): one
\* file, every eligible file of the specs directory, or nothing.
SelectFiles(files, specificFile) ==
    IF specificFile # NoArg /\ ~IsShared(specificFile)
    THEN IF ~Exists(files, FullPath(specificFile))
         THEN [mode |-> "notfound", specFiles |-> <<>>]
         ELSE [mode |-> "incremental", specFiles |-> <<FullPath(specificFile)>>]
    ELSE IF FullList(files) = <<>> THEN [mode |-> "empty", specFiles |-> <<>>]
    ELSE [mode |-> "full", specFiles |-> FullList(files)]

\* Variant in which a full build that finds no spec file throws.
StartRunEmptyThrows(files, specificFile, ioError) ==
    LET sel == SelectFiles(files, specificFile)
        n == Len(sel.specFiles)
    IN  IF ioError
        THEN [NoRun EXCEPT !.st = "threw", !.mode = "full"]
        ELSE [NoRun EXCEPT
                !.st = IF sel.mode = "empty" THEN "threw"
                       ELSE IF n = 0 THEN "returned" ELSE "tasks",
                !.mode = sel.mode,
                !.specFiles = sel.specFiles,
                !.task = [i \in 1..n |-> "pending"],
                !.errs = [i \in 1..n |-> "none"],
                !.wrote = [i \in 1..n |-> Absent]]

\* The state of a run when generateSpecs reaches its await: every task has
\* started and waits for its references to be resolved; or the run has
\* returned early; or, ioError, the listing of the directory threw.
StartRun(files, specificFile, ioError) ==
    LET sel == SelectFiles(files, specificFile)
        n == Len(sel.specFiles)
    IN  IF ioError
        THEN [NoRun EXCEPT !.st = "threw", !.mode = "full"]
        ELSE [NoRun EXCEPT
                !.st = IF n = 0 THEN "returned" ELSE "tasks",
                !.mode = sel.mode,
                !.specFiles = sel.specFiles,
                !.task = [i \in 1..n |-> "pending"],
                !.errs = [i \in 1..n |-> "none"],
                !.wrote = [i \in 1..n |-> Absent]]

\* readdirSync is reached, and may throw, only on the way to a full build.
MayThrow(specificFile) == specificFile = NoArg \/ IsShared(specificFile)

(***************************************************************************)
(* watch.js                                                                *)
(***************************************************************************)

W_specsPrefix == Cat(<<W_alchemy, Slash, W_specs, Slash>>)
W_generatedPrefix == Cat(<<W_alchemy, Slash, W_generated, Slash>>)
W_docsYml == <<"d", "o", "c", "s">> \o ExtYml

\* The paths chokidar reports (lines 45-56): the watched patterns, less the
\* dot files and the generated directory.
Watched(p) ==
    /\ \/ EndsWith(p, ExtMdx)
       \/ p = W_docsYml
       \/ EndsWith(p, ExtJson)
       \/ StartsWith(p, W_specsPrefix) /\ EndsWith(p, ExtYaml)
    /\ ~StartsWith(p, Dot) /\ ~Includes(p, Slash \o Dot)
    /\ ~Includes(p, W_generatedPrefix)

\* isSpecFile (lines 103-105)
IsSpecFile(changedPath) ==
    Includes(changedPath, W_specsPrefix)
        /\ (EndsWith(changedPath, ExtYaml) \/ EndsWith(changedPath, ExtYml))

\* The paths of the events the watcher can see.
EventPaths == {Rel(f) : f \in {g \in FileSet : Watched(Rel(g))}}

\* The arguments given on the command line.
CliArgs == {NoArg, fA} \cup {Rel(f) : f \in FileSet}

(***************************************************************************)
(* Actions                                                                 *)
(***************************************************************************)

\* The state before any invocation, over the given contents of a.yaml,
\* b.yaml, a.yml, x_components.yaml and the fragment _s.yaml.
InitOver(As, Bs, Ys, Xs, Gs) ==
    /\ fs \in {[f \in FileSet |->
                  CASE f = fA -> a [] f = fB -> b [] f = fAyml -> y
                    [] f = fXc -> x [] f = fFrag -> g
                    [] f = fComp -> FragComp [] OTHER -> PageText] :
               a \in As, b \in Bs, y \in Ys, x \in Xs, g \in Gs}
    /\ out = [o \in OutPaths |-> Absent]
    /\ inst = [i \in Runs |-> Unused]
    /\ revalidateTimeout = NoTimer

Init == InitOver(ContentsA, ContentsB, ContentsAyml, ContentsXc, ContentsFrag)

\* node generate-specs.js [file] (lines 190-198), up to the await of
\* generateSpecs.
CliStart(i, arg, ioError) ==
    /\ inst[i].pc = "unused"
    /\ ioError => MayThrow(arg)
    /\ inst' = [inst EXCEPT ![i] =
                  [caller |-> "cli", pc |-> "gen", path |-> arg,
                   run |-> StartRun(fs, arg, ioError)]]
    /\ UNCHANGED <<fs, out, revalidateTimeout>>

\* The debounced callback of triggerRevalidation starts for changedPath
\* (lines 99-111): a spec file is regenerated first.
CallbackStart(i, changedPath, ioError) ==
    /\ inst[i].pc = "unused"
    /\ ioError => IsSpecFile(changedPath) /\ MayThrow(changedPath)
    /\ inst' = [inst EXCEPT ![i] =
                  IF IsSpecFile(changedPath)
                  THEN [caller |-> "watch", pc |-> "gen", path |-> changedPath,
                        run |-> StartRun(fs, changedPath, ioError)]
                  ELSE [caller |-> "watch", pc |-> "upload", path |-> changedPath,
                        run |-> NoRun]]
    /\ UNCHANGED <<fs, out, revalidateTimeout>>

\* add, change or unlink is reported for path p: triggerRevalidation(p)
\* clears the pending timer and sets a new one for p (lines 96-99, 151).
\* The callbacks of one behaviour are bounded: an event is taken while one
\* more callback can still start.
Event(p) ==
    /\ \E i \in DOMAIN inst : inst[i].pc = "unused"
    /\ revalidateTimeout' = p
    /\ UNCHANGED <<fs, out, inst>>

\* The callbacks that have started.
Used == Cardinality({i \in DOMAIN inst : inst[i].pc # "unused"})

\* DEBOUNCE_MS after the last event the timer fires and its callback
\* starts with the path of that event (lines 99-111), whatever earlier
\* callbacks are doing.  Callbacks are numbered in the order they start.
TimerFire(i, ioError) ==
    /\ revalidateTimeout # NoTimer
    /\ i = Used + 1
    /\ i \in DOMAIN inst
    /\ ioError => IsSpecFile(revalidateTimeout) /\ MayThrow(revalidateTimeout)
    /\ inst' = [inst EXCEPT ![i] =
                  IF IsSpecFile(revalidateTimeout)
                  THEN [caller |-> "watch", pc |-> "gen", path |-> revalidateTimeout,
                        run |-> StartRun(fs, revalidateTimeout, ioError)]
                  ELSE [caller |-> "watch", pc |-> "upload", path |-> revalidateTimeout,
                        run |-> NoRun]]
    /\ revalidateTimeout' = NoTimer
    /\ UNCHANGED <<fs, out>>

\* Variant of the continuation without the catch: an error ends the run
\* at once, whatever the other tasks are doing.
SettledRunNoCatch(run, k, r, output, writeFails) ==
    IF ~r.ok
    THEN [run EXCEPT !.task[k] = "failed", !.errs[k] = r.err, !.st = "threw"]
    ELSE IF writeFails
    THEN [run EXCEPT
            !.results = Append(@, [spec |-> r.spec, fileName |-> r.fileName]),
            !.task[k] = "failed",
            !.errs[k] = "io",
            !.st = "threw"]
    ELSE [run EXCEPT
            !.results = Append(@, [spec |-> r.spec, fileName |-> r.fileName]),
            !.task[k] = "ok",
            !.wrote[k] = output]

\* The continuation of a task whose dereferenceSpec gave r: the result is
\* pushed and written (lines 164-166), or the error is caught and the task
\* yields null (lines 167-170).
SettledRun(run, k, r, output, writeFails) ==
    IF ~r.ok
    THEN [run EXCEPT !.task[k] = "failed", !.errs[k] = r.err]
    ELSE IF writeFails
    THEN [run EXCEPT
            !.results = Append(@, [spec |-> r.spec, fileName |-> r.fileName]),
            !.task[k] = "failed",
            !.errs[k] = "io"]
    ELSE [run EXCEPT
            !.results = Append(@, [spec |-> r.spec, fileName |-> r.fileName]),
            !.task[k] = "ok",
            !.wrote[k] = output]

\* The generated directory after writeSpec(r.fileName, r.spec) (line 98).
Written(files, r, output, writeFails) ==
    IF r.ok /\ ~writeFails
    THEN [files EXCEPT ![OutputPath(r.fileName)] = output]
    ELSE files

\* The reads of one dereference call, counted in the run: the parser is
\* made anew by each call (line 20), so what one call has read serves no
\* other.
Loaded(run, read) ==
    [run EXCEPT !.loads = [f \in FileSet |-> IF f \in read THEN @[f] + 1 ELSE @[f]]]

SettleWith(i, k, r, writeFails) ==
    /\ writeFails => r.ok
    /\ inst' = [inst EXCEPT ![i].run =
                  Loaded(SettledRun(@, k, r, OutputOf(r.spec), writeFails),
                         ExternalFiles(fs, inst[i].run.specFiles[k]))]
    /\ out' = Written(out, r, OutputOf(r.spec), writeFails)

\* One task of the map over specFiles goes on after its await (lines
\* 161-171).  writeFails: writeFileSync throws.
TaskSettle(i, k, writeFails) ==
    /\ inst[i].run.st = "tasks"
    /\ k \in 1..Len(inst[i].run.specFiles)
    /\ inst[i].run.task[k] = "pending"
    /\ SettleWith(i, k, dereferenceSpec(fs, inst[i].run.specFiles[k]), writeFails)
    /\ UNCHANGED <<fs, revalidateTimeout>>

RECURSIVE SumMethods(_)
\* results.reduce((sum, r) => sum + (r?.spec?.methods?.length || 0), 0)
SumMethods(results) ==
    IF results = <<>> THEN 0
    ELSE MethodCount(Head(results).spec) + SumMethods(Tail(results))

\* Promise.all resolves; the totals are computed and generateSpecs returns
\* (lines 173-187).
RunFinish(i) ==
    LET run == inst[i].run
    IN  /\ run.st = "tasks"
        /\ \A k \in 1..Len(run.task) : run.task[k] # "pending"
        /\ inst' = [inst EXCEPT
                      ![i].run.st = "returned",
                      ![i].run.successful = Len(run.results),
                      ![i].run.totalMethods = SumMethods(run.results)]
        /\ UNCHANGED <<fs, out, revalidateTimeout>>

\* The command ends: with code 1 when generateSpecs rejected (lines 194-197).
CliExit(i) ==
    /\ inst[i].caller = "cli" /\ inst[i].pc = "gen"
    /\ inst[i].run.st \in {"returned", "threw"}
    /\ inst' = [inst EXCEPT ![i].pc =
                  IF inst[i].run.st = "threw" THEN "exit1" ELSE "exit0"]
    /\ UNCHANGED <<fs, out, revalidateTimeout>>

\* The callback goes on after generateSpecs returned (line 111 to 120).
CbGenerated(i) ==
    /\ inst[i].caller = "watch" /\ inst[i].pc = "gen"
    /\ inst[i].run.st = "returned"
    /\ inst' = [inst EXCEPT ![i].pc = "upload"]
    /\ UNCHANGED <<fs, out, revalidateTimeout>>

\* generateSpecs rejected: the callback returns without revalidation (lines
\* 112-116).
CbGenerationFailed(i) ==
    /\ inst[i].caller = "watch" /\ inst[i].pc = "gen"
    /\ inst[i].run.st = "threw"
    /\ inst' = [inst EXCEPT ![i].pc = "aborted"]
    /\ UNCHANGED <<fs, out, revalidateTimeout>>

\* uploadToRedis(changedPath) settles (line 120); its errors are caught
\* inside.
CbUpload(i) ==
    /\ inst[i].caller = "watch" /\ inst[i].pc = "upload"
    /\ inst' = [inst EXCEPT ![i].pc = "revalidate"]
    /\ UNCHANGED <<fs, out, revalidateTimeout>>

\* The revalidation request settles (lines 122-150).
CbRevalidate(i) ==
    /\ inst[i].caller = "watch" /\ inst[i].pc = "revalidate"
    /\ inst' = [inst EXCEPT ![i].pc = "done"]
    /\ UNCHANGED <<fs, out, revalidateTimeout>>

Next ==
    \E i \in Runs :
        \/ \E arg \in CliArgs, e \in BOOLEAN : CliStart(i, arg, e)
        \/ \E p \in EventPaths, e \in BOOLEAN : CallbackStart(i, p, e)
        \/ \E k \in 1..Len(AllFiles), w \in BOOLEAN : TaskSettle(i, k, w)
        \/ RunFinish(i)
        \/ CliExit(i)
        \/ CbGenerated(i)
        \/ CbGenerationFailed(i)
        \/ CbUpload(i)
        \/ CbRevalidate(i)

Spec == Init /\ [][Next]_vars

(***************************************************************************)
(* The same program over documents whose methods are every list of up to   *)
(* MaxMethods entries with names drawn from SortNames.                     *)
(***************************************************************************)

MaxMethods == 3

SortNames == {<<"a">>, <<"B">>, <<"b">>, <<"a", "B">>}

\* A summary that tells the entries of a list apart: the place of the entry
\* in the source.
PosTag(p) ==
    CASE p = 1 -> "m1" [] p = 2 -> "m2" [] p = 3 -> "m3" [] p = 4 -> "m4"
      [] OTHER -> "m5"

MethodLists ==
    UNION {{[p \in 1..n |-> Method(names[p], PosTag(p), TString)] :
                names \in [1..n -> SortNames]} : n \in 0..MaxMethods}

SortDocs == {Doc(ms, <<>>) : ms \in MethodLists}

InitSort == InitOver(SortDocs, {Absent}, {Absent}, {Absent}, {FragGood})

SpecSort == InitSort /\ [][Next]_vars

(***************************************************************************)
(* The watcher alone: events, the debounce timer and the callbacks it      *)
(* starts, over a specs directory that holds a.yaml and the fragment.      *)
(* A timer that stays set fires (setTimeout): weak fairness of its expiry. *)
(* Events owe nothing: the files may be left alone for ever.               *)
(***************************************************************************)

\* Callbacks of the watcher in one behaviour.
MaxCallbacks == 2

Callbacks == 1..MaxCallbacks

WatchA == {DocPlain, DocMissing}

InitWatch ==
    /\ fs \in {[f \in FileSet |->
                  CASE f = fA -> a [] f = fFrag -> FragGood
                    [] f = fComp -> FragComp [] f = fPage -> PageText
                    [] OTHER -> Absent] : a \in WatchA}
    /\ out = [o \in OutPaths |-> Absent]
    /\ inst = [i \in Callbacks |-> Unused]
    /\ revalidateTimeout = NoTimer

Fire == \E i \in Callbacks, e \in BOOLEAN : TimerFire(i, e)

CallbackStep ==
    \E i \in Callbacks :
        \/ \E k \in 1..Len(AllFiles), w \in BOOLEAN : TaskSettle(i, k, w)
        \/ RunFinish(i)
        \/ CbGenerated(i)
        \/ CbGenerationFailed(i)
        \/ CbUpload(i)
        \/ CbRevalidate(i)

NextWatch ==
    \/ \E p \in EventPaths : Event(p)
    \/ Fire
    \/ CallbackStep

\* What the firing of the timer does to the timer: the steps of NextWatch
\* that clear a pending timer are the steps of Fire, and Fire is enabled
\* where this is.
TimerExpires ==
    /\ revalidateTimeout # NoTimer
    /\ Used < MaxCallbacks
    /\ revalidateTimeout' = NoTimer

SpecWatch ==
    InitWatch /\ [][NextWatch]_vars /\ WF_revalidateTimeout(TimerExpires)

(***************************************************************************)
(* The same program over the ways the specs directory can be filled: no    *)
(* spec file at all, a.yaml and a.yml side by side, two documents that     *)
(* refer to the same fragment.                                             *)
(***************************************************************************)

DirA == {Absent, DocPlain, DocFragRef, DocMissing}
DirB == {Absent, DocFragRef}
DirAyml == {Absent, DocOther}

InitDir == InitOver(DirA, DirB, DirAyml, {Absent}, ContentsFrag)

SpecDir == InitDir /\ [][Next]_vars

(***************************************************************************)
(* What the properties speak of                                            *)
(***************************************************************************)

\* Every reference the resolution of document f meets names something.
TargetsExist(files, f) == \A l \in Reached(files, f) : Loadable(files, l)

\* Document f holds a reference cycle: a location refers, directly or
\* through other locations, to itself.
Cyclic(files, f) ==
    \E l \in Reached(files, f) \cup {<<f, <<>>>>} :
        l \in RefClosure(files, RefSucc(files, l))

RECURSIVE HasConflict(_)
\* A composition list of the tree cannot be merged.
HasConflict(n) ==
    \/ IsAllOf(n) /\ Truthy(Get(n, "allOf")) /\ ~MergeAllOf(n).ok
    \/ \E i \in 1..Len(Children(n)) : HasConflict(Children(n)[i])

\* The run of invocation i.
RunOf(i) == inst[i].run

Tasks(i) == 1..Len(RunOf(i).specFiles)

Settled(i) == {k \in Tasks(i) : RunOf(i).task[k] # "pending"}

\* The run is over: generateSpecs has returned or thrown.
Over(i) == RunOf(i).st \in {"returned", "threw"}

\* The top-level documents of the specs directory a full build takes: the
\* files there, with the extension of a spec, that are no shared fragments.
Leaves(files) ==
    {f \in FileSet :
        /\ files[f] # Absent
        /\ Dirname(f) = SPECS_DIR
        /\ Extname(f) \in {ExtYaml, ExtYml}
        /\ Basename(f)[1] # "_"}

\* What a run that processes document f alone and without error writes.
ArtifactOf(files, f) == OutputOf(dereferenceSpec(files, f).spec)

\* The pipeline of the document of task k succeeds: its references resolve
\* and its write does not throw.
PipelineOk(i, k) ==
    dereferenceSpec(fs, RunOf(i).specFiles[k]).ok /\ RunOf(i).errs[k] # "io"

\* The artifact of the document of task k is on disk as a task of the run
\* wrote it.
ArtifactWritten(i, k) ==
    LET f == RunOf(i).specFiles[k]
    IN  /\ RunOf(i).wrote[k] = ArtifactOf(fs, f)
        /\ \E j \in Tasks(i) :
              /\ OutputPath(BasenameNoExt(RunOf(i).specFiles[j])) =
                    OutputPath(BasenameNoExt(f))
              /\ RunOf(i).task[j] = "ok"
              /\ out[OutputPath(BasenameNoExt(f))] = RunOf(i).wrote[j]

(***************************************************************************)
(* Properties                                                              *)
(***************************************************************************)

\* C1: in a batch run a failure of one document's pipeline does not abort
\* the others: the run ends only when every document has been attempted,
\* every document whose own pipeline succeeds has its artifact written, and
\* a document is marked failed only when its own pipeline failed.
C1_Isolation ==
    \A i \in Runs :
        /\ Over(i) => Settled(i) = Tasks(i)
        /\ \A k \in Settled(i) :
              IF PipelineOk(i, k)
              THEN RunOf(i).task[k] = "ok" /\ ArtifactWritten(i, k)
              ELSE RunOf(i).task[k] = "failed" /\ RunOf(i).wrote[k] = Absent

\* A batch of three documents is over, the second failed on a reference
\* that names nothing, the two others have their artifacts.
C1_Witness ==
    \E i \in Runs :
        /\ Over(i) /\ Len(RunOf(i).specFiles) = 3
        /\ RunOf(i).task = <<"ok", "failed", "ok">>
        /\ RunOf(i).errs[2] = "missing"
        /\ ArtifactWritten(i, 1) /\ ArtifactWritten(i, 3)

\* C2: whenever a document failed during a run, the run signals failure to
\* its caller (generateSpecs rejects), so that the watcher's callback never
\* goes on to the upload and the revalidation.
C2_FailureSignalled ==
    \A i \in Runs :
        (Over(i) /\ \E k \in Tasks(i) : RunOf(i).task[k] = "failed")
            => /\ RunOf(i).st = "threw"
               /\ inst[i].pc \notin {"upload", "revalidate", "done", "exit0"}

\* C3: generateSpecs(D) for a leaf document D processes exactly D, writes
\* for D what a full build writes for D, and leaves every other artifact as
\* it was.
C3_IncrementalExact ==
    \A i \in Runs : \A D \in Leaves(fs) :
        (inst[i].path \in {D, Rel(D)} /\ RunOf(i).st \in {"tasks", "returned"})
            => /\ RunOf(i).specFiles = <<D>>
               /\ 1 \in Settled(i) /\ PipelineOk(i, 1)
                    => RunOf(i).wrote[1] = ArtifactOf(fs, D)
               /\ \A o \in OutPaths \ {OutputPath(BasenameNoExt(D))} :
                    out[o] = Absent

\* The changed path names a shared fragment: its file name starts with the
\* marker, or it lies under a components directory.
NamesFragment(p) ==
    p # NoArg /\ (Basename(p)[1] = "_" \/ Includes(p, W_components \o Slash))

\* The file a path names, seen from the working directory.
AbsOf(p) == IF IsAbsolute(p) THEN p ELSE Join(RootDir, p)

\* C4: when the changed path names a shared fragment the run is a full
\* build: the documents processed are exactly the leaves of the specs
\* directory, each once; the fragment is not among them and gets no
\* artifact; and when the run is over every leaf whose pipeline succeeds
\* has its artifact rewritten.
C4_FragmentFanOut ==
    \A i \in Runs :
        (NamesFragment(inst[i].path) /\ RunOf(i).st \in {"tasks", "returned"})
            => /\ RunOf(i).mode \in {"full", "empty"}
               /\ {RunOf(i).specFiles[k] : k \in Tasks(i)} = Leaves(fs)
               /\ Len(RunOf(i).specFiles) = Cardinality(Leaves(fs))
               /\ \A k \in Tasks(i) : RunOf(i).specFiles[k] # AbsOf(inst[i].path)
               /\ out[OutputPath(BasenameNoExt(inst[i].path))] = Absent
               /\ Over(i) =>
                    \A k \in Tasks(i) : PipelineOk(i, k) => ArtifactWritten(i, k)

\* The fragment referenced by a.yaml has changed; the run is over and has
\* rewritten the artifacts of a.yaml, which refers to it, and of another
\* document.
C4_Witness ==
    \E i \in Runs :
        /\ inst[i].path = Rel(fFrag) /\ Over(i)
        /\ fs[fA] = DocFragRef
        /\ Len(RunOf(i).specFiles) >= 2
        /\ \A k \in Tasks(i) : RunOf(i).task[k] = "ok" /\ ArtifactWritten(i, k)

\* The document of task k.
FileOf(i, k) == RunOf(i).specFiles[k]

\* C5: a document that cannot be fully resolved and merged is never
\* written: when a composition list of the resolved document cannot be
\* merged, the document's generation fails and no artifact is written.
C5_ConflictFailsDocument ==
    \A i \in Runs : \A k \in Settled(i) :
        (Dereference(fs, FileOf(i, k)).ok
            /\ HasConflict(Dereference(fs, FileOf(i, k)).tree))
            => RunOf(i).task[k] = "failed" /\ RunOf(i).wrote[k] = Absent

\* C6: a document that holds a reference cycle fails, with the error of a
\* circular reference when all its targets exist, and no artifact is
\* written for it.
C6_CycleFails ==
    \A i \in Runs : \A k \in Settled(i) :
        Cyclic(fs, FileOf(i, k))
            => /\ RunOf(i).task[k] = "failed"
               /\ RunOf(i).wrote[k] = Absent
               /\ TargetsExist(fs, FileOf(i, k)) => RunOf(i).errs[k] = "circular"
               /\ \A j \in 1..Len(RunOf(i).results) :
                     RunOf(i).results[j].fileName # BasenameNoExt(FileOf(i, k))

\* A batch is over in which the document with the cycle X -> Y -> X failed
\* as circular, next to a document that was written.
C6_Witness ==
    \E i \in Runs : \E k, j \in Tasks(i) :
        /\ Over(i)
        /\ fs[FileOf(i, k)] = DocCycle
        /\ RunOf(i).errs[k] = "circular"
        /\ out[OutputPath(BasenameNoExt(FileOf(i, k)))] = Absent
        /\ RunOf(i).task[j] = "ok"

\* C7: no node of a tree that went through composition, and so of a
\* written artifact, has an allOf key.
C7_NoAllOfLeft ==
    \A i \in Runs :
        /\ \A j \in 1..Len(RunOf(i).results) : ~HasAllOfNode(RunOf(i).results[j].spec)
        /\ \A k \in Tasks(i) :
              RunOf(i).wrote[k] # Absent => ~HasAllOfNode(RunOf(i).wrote[k])

\* C8: the tree dereferenceSpec returns has no reference node; a document
\* without cycles whose targets all exist is resolved; a document with a
\* target that cannot be loaded fails.
C8_ReferenceFree ==
    \A i \in Runs :
        /\ \A j \in 1..Len(RunOf(i).results) : ~HasRefNode(RunOf(i).results[j].spec)
        /\ \A k \in Settled(i) :
              /\ ~TargetsExist(fs, FileOf(i, k))
                    => /\ RunOf(i).task[k] = "failed"
                       /\ RunOf(i).errs[k] \in {"resolver", "missing", "circular"}
              /\ (TargetsExist(fs, FileOf(i, k)) /\ ~Cyclic(fs, FileOf(i, k)))
                    => /\ RunOf(i).errs[k] \in {"none", "io"}
                       /\ \E j \in 1..Len(RunOf(i).results) :
                             RunOf(i).results[j].fileName = BasenameNoExt(FileOf(i, k))

\* A document that refers to the shared fragment, whose node refers on to
\* another node of the fragment, was resolved and written free of
\* references.
C8_Witness ==
    \E i \in Runs : \E k \in Tasks(i) :
        /\ fs[FileOf(i, k)] = DocFragRef
        /\ HasRefNode(fs[FileOf(i, k)])
        /\ RunOf(i).task[k] = "ok"
        /\ ~HasRefNode(RunOf(i).wrote[k])
        /\ Len(RunOf(i).results) > 0

\* C9: every written document carries the generated-file marker, and a
\* document that already has the marker key fails and is not written.
C9_MarkerCollisionFails ==
    \A i \in Runs : \A k \in Settled(i) :
        /\ RunOf(i).wrote[k] # Absent
              => Get(RunOf(i).wrote[k], MarkerKey) = MarkerValue
        /\ (dereferenceSpec(fs, FileOf(i, k)).ok
              /\ HasKey(dereferenceSpec(fs, FileOf(i, k)).spec, MarkerKey))
              => RunOf(i).task[k] = "failed" /\ RunOf(i).wrote[k] = Absent

\* The document a result came from.
SourceOf(i, j) ==
    FileOf(i, CHOOSE k \in Tasks(i) :
                 BasenameNoExt(FileOf(i, k)) = RunOf(i).results[j].fileName)

\* What identifies an entry of a methods list: its name and its summary.
EntryId(m) == <<NameOf(m), Get(m, "summary").v>>

\* The place of an entry in a list.
PlaceIn(xs, id) == CHOOSE p \in 1..Len(xs) : EntryId(xs[p]) = id

\* ys holds the entries of xs, each once, in an order where no entry
\* compares greater than a later one, the entries of equal name in the
\* order they have in xs.
StableSorted(xs, ys, Compare(_, _)) ==
    /\ Len(ys) = Len(xs)
    /\ \A p \in 1..Len(xs) : \E q \in 1..Len(ys) : EntryId(ys[q]) = EntryId(xs[p])
    /\ \A p, q \in 1..Len(ys) :
          p < q =>
            /\ Compare(NameOf(ys[p]), NameOf(ys[q])) <= 0
            /\ NameOf(ys[p]) = NameOf(ys[q])
                  => PlaceIn(xs, EntryId(ys[p])) < PlaceIn(xs, EntryId(ys[q]))

\* The methods of the source of result j and the methods of the result.
MethodsIn(i, j) == Get(fs[SourceOf(i, j)], "methods").items
MethodsOut(i, j) == Get(RunOf(i).results[j].spec, "methods").items

\* C10 as stated: the output methods are the input methods in ordinary
\* lexicographic (code unit) order of their names, stably.
C10_SortedLexicographic ==
    \A i \in Runs : \A j \in 1..Len(RunOf(i).results) :
        StableSorted(MethodsIn(i, j), MethodsOut(i, j), CodeUnitCompare)

\* C10, amended: the output methods are a permutation of the input methods
\* ordered by name under localeCompare (letters first whatever their case,
\* lower case before upper case between names with the same letters), and
\* the sort is stable: entries with identical names keep their order.
C10_SortedByLocale ==
    \A i \in Runs : \A j \in 1..Len(RunOf(i).results) :
        StableSorted(MethodsIn(i, j), MethodsOut(i, j), LocaleCompare)

\* Methods named B, a, a came out as a, a, B, the two a in source order.
C10_Witness ==
    \E i \in Runs : \E j \in 1..Len(RunOf(i).results) :
        /\ [p \in 1..Len(MethodsIn(i, j)) |-> EntryId(MethodsIn(i, j)[p])]
              = <<<<(<<"B">>), "m1">>, <<(<<"a">>), "m2">>, <<(<<"a">>), "m3">>>>
        /\ [p \in 1..Len(MethodsOut(i, j)) |-> EntryId(MethodsOut(i, j)[p])]
              = <<<<(<<"a">>), "m2">>, <<(<<"a">>), "m3">>, <<(<<"B">>), "m1">>>>

\* Invocation i asked for a full build: no file was named, or the file
\* named is a shared component; from the watcher, the path is a spec file.
AskedFull(i) ==
    /\ inst[i].pc # "unused"
    /\ inst[i].caller = "watch" => IsSpecFile(inst[i].path)
    /\ inst[i].path = NoArg \/ IsShared(inst[i].path)

\* The output path of task k of the run of invocation i.
OutputPathOf(i, k) == OutputPath(BasenameNoExt(FileOf(i, k)))

\* The completion orders of n concurrent tasks.
Orders(n) == {o \in [1..n -> 1..n] : \A a, b \in 1..n : o[a] = o[b] => a = b}

RECURSIVE OutAfter(_, _, _, _)
\* The generated directory after the tasks of a run over specFiles went on
\* in the given order, none of the writes throwing, starting from dir.
OutAfter(dir, files, specFiles, order) ==
    IF order = <<>> THEN dir
    ELSE OutAfter(Written(dir, dereferenceSpec(files, specFiles[Head(order)]),
                          OutputOf(dereferenceSpec(files, specFiles[Head(order)]).spec),
                          FALSE),
                  files, specFiles, Tail(order))

\* C11: when a full build has returned, none of its writes having thrown,
\* running the full build again on the same input leaves every artifact as
\* it is, whatever the order in which the tasks of the second run complete.
C11_Idempotent ==
    \A i \in DOMAIN inst :
        (/\ RunOf(i).mode = "full"
         /\ RunOf(i).st = "returned"
         /\ \A k \in Tasks(i) : RunOf(i).errs[k] # "io")
        => \A o \in Orders(Len(RunOf(i).specFiles)) :
              OutAfter(out, fs, RunOf(i).specFiles, o) = out

\* C12: within one run no external document is read more than once.
C12_LoadedOnce ==
    \A i \in DOMAIN inst : \A f \in FileSet : RunOf(i).loads[f] <= 1

\* C13: a full build over a directory with no eligible document, the
\* listing of the directory not having thrown, returns without error: it
\* has no task, no result and no artifact written, its counts are zero,
\* and its caller goes on as after a success.
C13_EmptyFullBuild ==
    \A i \in DOMAIN inst :
        (AskedFull(i) /\ Leaves(fs) = {}
            /\ ~(RunOf(i).st = "threw" /\ RunOf(i).mode = "full"))
        => /\ RunOf(i).st = "returned"
           /\ RunOf(i).specFiles = <<>> /\ RunOf(i).wrote = <<>>
           /\ RunOf(i).results = <<>>
           /\ RunOf(i).successful = 0 /\ RunOf(i).totalMethods = 0
           /\ inst[i].pc \notin {"exit1", "aborted"}
           /\ \A o \in OutPaths : out[o] = Absent

\* A full build from the command line over a directory without an eligible
\* document has ended.
C13_Witness ==
    \E i \in DOMAIN inst :
        /\ inst[i].caller = "cli" /\ inst[i].path = NoArg
        /\ Leaves(fs) = {}
        /\ inst[i].pc = "exit0"

\* The tasks of the run whose whole pipeline completed, in task order.
Succeeded(i) ==
    SelectSeq([k \in 1..Len(RunOf(i).specFiles) |-> k],
              LAMBDA k : RunOf(i).task[k] = "ok")

\* C14: when a run has returned, its succeeded count is the number of its
\* documents that were resolved and written without error, and its total
\* method count is the sum of the method counts of those documents.
C14_CountsSucceeded ==
    \A i \in DOMAIN inst :
        (RunOf(i).st = "returned" /\ RunOf(i).mode \in {"full", "incremental"})
        => /\ RunOf(i).successful = Len(Succeeded(i))
           /\ RunOf(i).totalMethods =
                 SumMethods([j \in 1..Len(Succeeded(i)) |->
                               dereferenceSpec(fs, FileOf(i, Succeeded(i)[j]))])

\* C15: in a full build no two tasks have the same output path.
C15_DistinctOutputs ==
    \A i \in DOMAIN inst :
        RunOf(i).mode = "full"
        => \A j, k \in Tasks(i) : j # k => OutputPathOf(i, j) # OutputPathOf(i, k)

\* The paths of the spec files whose events the watcher sees, the file
\* being there (add, change).
SpecEvents ==
    {p \in EventPaths : IsSpecFile(p) /\ ReadFile(fs, AbsOf(p)) # Absent}

\* Callback i called generateSpecs in a way that takes the file of path p:
\* for p itself, or for a full build.
Covers(i, p) ==
    /\ inst[i].caller = "watch" /\ inst[i].pc # "unused"
    /\ IsSpecFile(inst[i].path)
    /\ inst[i].path = p \/ IsShared(inst[i].path) \/ IsShared(p)

\* C16: once an event on a spec file has set the timer, a callback that
\* starts later calls generateSpecs for that file, whatever events follow.
\* Behaviours that use up their callbacks are not judged: the watcher is
\* held to this while it can still start one.
C16_EventuallyRegenerated ==
    \A p \in EventPaths : \A n \in 0..MaxCallbacks :
        (p \in SpecEvents /\ revalidateTimeout = p /\ Used = n)
            ~> \/ \E i \in DOMAIN inst : i > n /\ Covers(i, p)
               \/ Used = MaxCallbacks

\* The callbacks whose body is in progress.
InProgress ==
    {i \in DOMAIN inst :
        inst[i].caller = "watch" /\ inst[i].pc \in {"gen", "upload", "revalidate"}}

\* C17: at most one callback body of the watcher is in progress.
C17_OneCallbackAtATime == Cardinality(InProgress) <= 1

====
